---- MODULE Spec2Model ----
(***************************************************************************)
(* A model of awsstepfuncs' abstract state hierarchy                      *)
(* (src/src/awsstepfuncs/abstract_state.py): construction and validation  *)
(* of a state, the >> link, the iterator protocol, compile, and the       *)
(* simulate pipeline InputPath -> _execute -> ResultSelector ->            *)
(* ResultPath -> OutputPath.                                               *)
(*                                                                         *)
(* Python strings that the code parses (reference paths, result-selector  *)
(* keys, state names) are sequences of one-character strings.  JSON data  *)
(* is a tagged scalar or a reference to a mapping object on a heap, so    *)
(* that the in-place assignment state_input[result_key] = state_output    *)
(* and the aliasing it creates are part of the model.                      *)
(***************************************************************************)
EXTENDS Integers, Sequences, FiniteSets, TLC

VARIABLES
    states,        \* the state objects constructed so far, by identity 1..Len
    heap,          \* the mapping objects of the running simulation, by address
    pc,            \* position of the running StateMachine.simulate call
    start,         \* the start_state of the running simulation (0: none)
    input_lit,     \* the state_input the caller wrote, before any stage ran
    data,          \* StateMachine.simulate's current data
    visited,       \* the states whose simulate the simulation has called
    result,        \* what the last StateMachine.simulate call returned
    self,          \* the state object whose simulate is running (0: none)
    raw_input,     \* simulate's state_input argument
    state_input,   \* simulate's local state_input after line 411
    state_output,  \* simulate's local state_output
    ret,           \* the value the last state's simulate returned
    err,           \* the exception the last constructor or simulate raised
    calls,         \* the stages the running state's simulate has gone through
    attempts,      \* retries used so far, by retrier of the running state
    chain,         \* the operands of the >> expression evaluated so far
    travs,         \* the for loops over a state that the caller runs
    compiled       \* what the last StateMachine.compile call returned

chainvars == <<chain, travs, compiled>>

vars == <<states, heap, pc, start, input_lit, data, visited, result, self,
          raw_input, state_input, state_output, ret, err, calls, attempts,
          chain, travs, compiled>>

----------------------------------------------------------------------------
(* Bounds and program constants *)

\* abstract_state.py line 17
MAX_STATE_NAME_LENGTH == 128

\* How deep Python's == is followed through nested mappings.
MaxDepth == 3

\* How many states one simulation or traversal runs through before the model
\* stops following it.
MaxVisits == 3

\* How many states are constructed.
MaxStates == 3

\* How many operands the >> expression has.
MaxChain == 3

\* How many for loops over states the caller has open.
MaxTravs == 2

----------------------------------------------------------------------------
(* Strings *)

Letters ==
    {"a", "b", "c", "d", "e", "f", "g", "h", "i", "j", "k", "l", "m",
     "n", "o", "p", "q", "r", "s", "t", "u", "v", "w", "x", "y", "z",
     "A", "B", "C", "D", "E", "F", "G", "H", "I", "J", "K", "L", "M",
     "N", "O", "P", "Q", "R", "S", "T", "U", "V", "W", "X", "Y", "Z"}

Digits == {"0", "1", "2", "3", "4", "5", "6", "7", "8", "9"}

\* key[-2:]
LastTwo(s) == IF Len(s) <= 2 THEN s ELSE SubSeq(s, Len(s) - 1, Len(s))

\* key[:-2]
DropLastTwo(s) == IF Len(s) <= 2 THEN <<>> ELSE SubSeq(s, 1, Len(s) - 2)

\* str(None)
StrNone == <<"N", "o", "n", "e">>

----------------------------------------------------------------------------
(* JSON data: tagged scalars and references to heap mappings *)

VNone == [k |-> "none", n |-> 0]
VBool(b) == [k |-> "bool", n |-> IF b THEN 1 ELSE 0]
VInt(i) == [k |-> "int", n |-> i]
VStr(i) == [k |-> "str", n |-> i]      \* n = 0 is the empty string
VList(i) == [k |-> "list", n |-> i]    \* n = 0 is the empty list
VRef(a) == [k |-> "ref", n |-> a]

\* {}
EmptyDict == [x \in {} |-> VNone]

IsDict(v) == v.k = "ref"

\* bool(v)
Truthy(h, v) ==
    IF v.k = "ref" THEN DOMAIN h[v.n] # {}
    ELSE IF v.k = "none" THEN FALSE
    ELSE v.n # 0

\* a == b in Python: the same object, equal scalars (True == 1), or mappings
\* with the same keys and equal values
RECURSIVE PyEqD(_, _, _, _)
PyEqD(h, a, b, d) ==
    \/ a = b
    \/ a.k \in {"bool", "int"} /\ b.k \in {"bool", "int"} /\ a.n = b.n
    \/ /\ a.k = "ref" /\ b.k = "ref" /\ d > 0
       /\ DOMAIN h[a.n] = DOMAIN h[b.n]
       /\ \A key \in DOMAIN h[a.n] : PyEqD(h, h[a.n][key], h[b.n][key], d - 1)

PyEq(h, a, b) == PyEqD(h, a, b, MaxDepth)

\* A literal is a list of mapping objects with addresses relative to the
\* literal, and a root value.  Evaluating it allocates the objects.
Relocate(v, base) == IF v.k = "ref" THEN VRef(v.n + base) ELSE v

RelocateObj(o, base) == [key \in DOMAIN o |-> Relocate(o[key], base)]

AllocHeap(h, lit) ==
    h \o [i \in 1..Len(lit.objs) |-> RelocateObj(lit.objs[i], Len(h))]

AllocRoot(h, lit) == Relocate(lit.root, Len(h))

Scalar(v) == [objs |-> <<>>, root |-> v]

----------------------------------------------------------------------------
(* ReferencePath (awsstepfuncs/reference_path.py) *)

\* the grammar: "$", or "$." followed by [A-Za-z]+
IsValidReferencePath(p) ==
    \/ p = <<"$">>
    \/ /\ Len(p) >= 3
       /\ p[1] = "$"
       /\ p[2] = "."
       /\ \A i \in 3..Len(p) : p[i] \in Letters \cup Digits

\* ReferencePath.apply
ReferencePathApply(h, p, v) ==
    IF p = <<"$">> THEN v
    ELSE LET field == SubSeq(p, 3, Len(p))
         IN  IF IsDict(v) /\ field \in DOMAIN h[v.n]
             THEN h[v.n][field]
             ELSE VNone

----------------------------------------------------------------------------
(* Construction: the __init__ chain AbstractState -> ... ->               *)
(* AbstractRetryCatchState.  A constructor argument record is             *)
(*   [name, comment, input_path, output_path, result_path, parameters,    *)
(*    result_selector, kind]                                               *)
(* where an Optional argument is [none |-> BOOLEAN, s or items |-> ...].  *)

\* bool(x) of an Optional[str]
StrArgTruthy(a) == ~a.none /\ a.s # <<>>

\* bool(x) of an Optional[dict]; a dict is its items in insertion order
DictArgTruthy(a) == ~a.none /\ a.items # <<>>

\* mutant: if len(name) >= MAX_STATE_NAME_LENGTH
AbstractState_init_raises_at_limit(args) ==
    Len(args.name) >= MAX_STATE_NAME_LENGTH

\* AbstractState.__init__ raises
AbstractState_init_raises(args) == Len(args.name) > MAX_STATE_NAME_LENGTH

\* AbstractInputPathOutputPathState.__init__ raises
InputPathOutputPath_init_raises(args) ==
    \/ ~IsValidReferencePath(args.input_path)
    \/ ~IsValidReferencePath(args.output_path)

\* AbstractResultPathState.__init__ raises
ResultPath_init_raises(args) ==
    StrArgTruthy(args.result_path) /\ ~IsValidReferencePath(args.result_path.s)

\* mutant: the loop checks the keys and never constructs the ReferencePath
validate_result_selector_keys_only(items) ==
    \E i \in 1..Len(items) : LastTwo(items[i][1]) # <<".", "$">>

\* AbstractResultSelectorState._validate_result_selector raises
validate_result_selector_raises(items) ==
    \E i \in 1..Len(items) :
        \/ LastTwo(items[i][1]) # <<".", "$">>
        \/ ~IsValidReferencePath(items[i][2])

\* AbstractResultSelectorState.__init__ raises
ResultSelector_init_raises(args) ==
    /\ DictArgTruthy(args.result_selector)
    /\ validate_result_selector_raises(args.result_selector.items)

ConstructorRaises(args) ==
    \/ AbstractState_init_raises(args)
    \/ InputPathOutputPath_init_raises(args)
    \/ ResultPath_init_raises(args)
    \/ ResultSelector_init_raises(args)

\* self.result_path = ReferencePath(result_path) if result_path else None
result_path_attr(args) ==
    IF StrArgTruthy(args.result_path)
    THEN [none |-> FALSE, s |-> args.result_path.s]
    ELSE [none |-> TRUE, s |-> <<>>]

\* self.parameters = parameters or {}
parameters_attr(args) ==
    IF DictArgTruthy(args.parameters) THEN args.parameters.items ELSE <<>>

\* The object a successful constructor call leaves.  next_state is 0 for
\* None; current is the attribute _current: -1 while it does not exist.
NewState(args) ==
    [name            |-> args.name,
     comment         |-> args.comment,
     next_state      |-> 0,
     current         |-> -1,
     input_path      |-> args.input_path,
     output_path     |-> args.output_path,
     result_path     |-> result_path_attr(args),
     parameters      |-> parameters_attr(args),
     result_selector |-> args.result_selector,
     retriers        |-> <<>>,
     catchers        |-> <<>>,
     kind            |-> args.kind,
     \* no attribute of the object: whether the call named result_path
     result_path_given |-> args.result_path_given]

----------------------------------------------------------------------------
(* The stages of simulate *)

\* x or {}: the value, and the heap after a {} was allocated if needed
OrEmptyHeap(h, v) == IF Truthy(h, v) THEN h ELSE Append(h, EmptyDict)

\* mutant: {} only in place of None
OrEmptyVal_for_None_only(h, v) == IF v.k # "none" THEN v ELSE VRef(Len(h) + 1)

\* x or {}: the value
OrEmptyVal(h, v) == IF Truthy(h, v) THEN v ELSE VRef(Len(h) + 1)

\* AbstractInputPathOutputPathState._apply_input_path
apply_input_path(st, h, v) == ReferencePathApply(h, st.input_path, v)

\* AbstractInputPathOutputPathState._apply_output_path
apply_output_path(st, h, v) == ReferencePathApply(h, st.output_path, v)

\* PassState._execute: the input unchanged
PassExecute(v) == v

\* the loop of AbstractResultSelectorState._apply_result_selector, from item
\* i on, acc being new_state_output
RECURSIVE SelectorLoop(_, _, _, _, _)
SelectorLoop(items, i, h, v, acc) ==
    IF i > Len(items) THEN acc
    ELSE LET key == DropLastTwo(items[i][1])
             extracted == ReferencePathApply(h, items[i][2], v)
         IN  SelectorLoop(items, i + 1, h, v,
                 IF Truthy(h, extracted)
                 THEN [x \in DOMAIN acc \cup {key} |->
                          IF x = key THEN extracted ELSE acc[x]]
                 ELSE acc)

\* mutant: the loop stores every resolution, falsy or not
apply_result_selector_keeps_falsy(st, h, v) ==
    LET items == st.result_selector.items
    IN  [x \in {DropLastTwo(items[i][1]) : i \in 1..Len(items)} |->
            LET i == CHOOSE j \in 1..Len(items) : DropLastTwo(items[j][1]) = x
            IN  ReferencePathApply(h, items[i][2], v)]

\* AbstractResultSelectorState._apply_result_selector: the new mapping
apply_result_selector(st, h, v) ==
    SelectorLoop(st.result_selector.items, 1, h, v, EmptyDict)

\* ReferencePath(reference_path) inside that loop raises
apply_result_selector_raises(st) ==
    \E i \in 1..Len(st.result_selector.items) :
        ~IsValidReferencePath(st.result_selector.items[i][2])

\* str(self.result_path)
StrResultPath(st) == IF st.result_path.none THEN StrNone ELSE st.result_path.s

\* re.fullmatch(r"\$\.([A-Za-z]+)", s)
FullMatchField(s) ==
    /\ Len(s) >= 3
    /\ s[1] = "$"
    /\ s[2] = "."
    /\ \A i \in 3..Len(s) : s[i] \in Letters

\* match.group(1)
MatchGroup1(s) == SubSeq(s, 3, Len(s))

\* the branch AbstractResultPathState._apply_result_path takes
ResultPathBranch(st) ==
    IF StrResultPath(st) = <<"$">> THEN "output"
    ELSE IF st.result_path.none THEN "input"
    ELSE IF FullMatchField(StrResultPath(st)) THEN "field"
    ELSE "assert"

\* mutant: with result_path None the output is kept instead of the input
apply_result_path_keeps_output(st, h, sin, sout) ==
    LET branch == ResultPathBranch(st)
        key == MatchGroup1(StrResultPath(st))
    IN  IF branch \in {"output", "input"} THEN [h |-> h, v |-> sout, e |-> "none"]
        ELSE IF branch = "field" THEN
            IF IsDict(sin)
            THEN [h |-> [h EXCEPT ![sin.n] =
                            [x \in DOMAIN h[sin.n] \cup {key} |->
                                IF x = key THEN sout ELSE h[sin.n][x]]],
                  v |-> sin, e |-> "none"]
            ELSE [h |-> h, v |-> VNone, e |-> "TypeError"]
        ELSE [h |-> h, v |-> VNone, e |-> "AssertionError"]

\* mutant: "$.field" rebinds the input to {field: output}, losing its keys
apply_result_path_replaces_input(st, h, sin, sout) ==
    LET branch == ResultPathBranch(st)
        key == MatchGroup1(StrResultPath(st))
    IN  IF branch = "output" THEN [h |-> h, v |-> sout, e |-> "none"]
        ELSE IF branch = "input" THEN [h |-> h, v |-> sin, e |-> "none"]
        ELSE IF branch = "field" THEN
            IF IsDict(sin)
            THEN [h |-> [h EXCEPT ![sin.n] = [x \in {key} |-> sout]],
                  v |-> sin, e |-> "none"]
            ELSE [h |-> h, v |-> VNone, e |-> "TypeError"]
        ELSE [h |-> h, v |-> VNone, e |-> "AssertionError"]

\* mutant: "$.field" sets the key on a copy of the input and returns the copy
apply_result_path_on_copy(st, h, sin, sout) ==
    LET branch == ResultPathBranch(st)
        key == MatchGroup1(StrResultPath(st))
    IN  IF branch = "output" THEN [h |-> h, v |-> sout, e |-> "none"]
        ELSE IF branch = "input" THEN [h |-> h, v |-> sin, e |-> "none"]
        ELSE IF branch = "field" THEN
            IF IsDict(sin)
            THEN [h |-> Append(h, [x \in DOMAIN h[sin.n] \cup {key} |->
                                IF x = key THEN sout ELSE h[sin.n][x]]),
                  v |-> VRef(Len(h) + 1), e |-> "none"]
            ELSE [h |-> h, v |-> VNone, e |-> "TypeError"]
        ELSE [h |-> h, v |-> VNone, e |-> "AssertionError"]

\* AbstractResultPathState._apply_result_path: the heap it leaves, the value
\* it returns and the exception it raises
apply_result_path(st, h, sin, sout) ==
    LET branch == ResultPathBranch(st)
        key == MatchGroup1(StrResultPath(st))
    IN  IF branch = "output" THEN [h |-> h, v |-> sout, e |-> "none"]
        ELSE IF branch = "input" THEN [h |-> h, v |-> sin, e |-> "none"]
        ELSE IF branch = "field" THEN
            IF IsDict(sin)
            THEN [h |-> [h EXCEPT ![sin.n] =
                            [x \in DOMAIN h[sin.n] \cup {key} |->
                                IF x = key THEN sout ELSE h[sin.n][x]]],
                  v |-> sin, e |-> "none"]
            ELSE [h |-> h, v |-> VNone, e |-> "TypeError"]
        ELSE [h |-> h, v |-> VNone, e |-> "AssertionError"]

\* where simulate goes after line 412
AfterExecute(st) ==
    IF DictArgTruthy(st.result_selector) THEN "result_selector"
    ELSE "result_path"

\* mutant: the result selector is never applied
NextStage_skips_selector(stage, st) ==
    IF stage = "input_path" THEN "execute"
    ELSE IF stage = "execute" THEN "result_path"
    ELSE IF stage = "result_selector" THEN "result_path"
    ELSE IF stage = "result_path" THEN "output_path"
    ELSE "next"

\* the order of the stages in AbstractResultSelectorState.simulate
NextStage(stage, st) ==
    IF stage = "input_path" THEN "execute"
    ELSE IF stage = "execute" THEN AfterExecute(st)
    ELSE IF stage = "result_selector" THEN "result_path"
    ELSE IF stage = "result_path" THEN "output_path"
    ELSE "next"

\* _execute of the concrete state: a Pass state returns its input, a Task
\* state what the mock function returns (a new value each call)
ExecOutcomes(st, h, v, mocks) ==
    IF st.kind = "Pass"
    THEN {[h |-> h, v |-> PassExecute(v)]}
    ELSE {[h |-> AllocHeap(h, lit), v |-> AllocRoot(h, lit)] : lit \in mocks}

----------------------------------------------------------------------------
(* The iterator protocol and the >> link *)

\* mutant: a state that already has a successor keeps it
rshift_keeps_successor(S, a, b) ==
    IF S[a].next_state = 0 THEN [S EXCEPT ![a].next_state = b] ELSE S

\* AbstractState.__rshift__: self.next_state = other
rshift(S, a, b) == [S EXCEPT ![a].next_state = b]

\* mutant: the cursor is set only when there is none yet
iter_keeps_cursor(S, s) ==
    IF S[s].current = -1 THEN [S EXCEPT ![s].current = s] ELSE S

\* mutant: the cursor starts at the successor
iter_from_successor(S, s) == [S EXCEPT ![s].current = S[s].next_state]

\* AbstractState.__iter__: self._current = self
iter(S, s) == [S EXCEPT ![s].current = s]

\* mutant: the loop stops on the state that has no successor
next_stops_on_last(S, s) ==
    S[s].current = 0 \/ S[S[s].current].next_state = 0

\* AbstractState.__next__ raises StopIteration: if not current
next_stops(S, s) == S[s].current = 0

\* AbstractState.__next__ returns current
next_value(S, s) == S[s].current

\* mutant: self._current = self.next_state
next_advance_from_self(S, s) == [S EXCEPT ![s].current = S[s].next_state]

\* mutant: the step also takes the state it leaves out of the chain
next_advance_unlinks(S, s) ==
    [S EXCEPT ![s].current = S[S[s].current].next_state,
              ![S[s].current].next_state = 0]

\* AbstractState.__next__: self._current = current.next_state
next_advance(S, s) == [S EXCEPT ![s].current = S[S[s].current].next_state]

\* the other open for loops over state s: each has lost the cursor it was
\* following once someone else assigns s._current
Disturb(T, s, t) ==
    [u \in DOMAIN T |->
        IF u # t /\ T[u].live /\ T[u].start = s
        THEN [T[u] EXCEPT !.clean = FALSE]
        ELSE T[u]]

\* the states reached from s through next_state, at most n of them
RECURSIVE Follow(_, _, _)
Follow(S, s, n) ==
    IF s = 0 \/ n = 0 THEN <<>>
    ELSE <<s>> \o Follow(S, S[s].next_state, n - 1)

\* no cycle is reachable from s
Acyclic(S, s) == Len(Follow(S, s, Len(S) + 1)) <= Len(S)

----------------------------------------------------------------------------
(* compile: each class adds its keys to what its parent class compiled *)

JStr(str) == [t |-> "str", s |-> str]
JNull == [t |-> "null", s |-> <<>>]
JTrue == [t |-> "true", s |-> <<>>]
JItems(items) == [t |-> "items", s |-> items]

\* compiled[key] = val
SetKey(m, key, val) == (key :> val) @@ m

\* bool(ReferencePath): the default "$" is not emitted by compile
ReferencePathTruthy(p) == p # <<"$">>

\* AbstractState.compile
compile_AbstractState(S, i) ==
    LET compiled0 == ("Type" :> JStr(S[i].kind))
    IN  IF StrArgTruthy(S[i].comment)
        THEN SetKey(compiled0, "Comment", JStr(S[i].comment.s))
        ELSE compiled0

\* AbstractInputPathOutputPathState.compile
compile_InputPathOutputPath(S, i) ==
    LET c0 == compile_AbstractState(S, i)
        c1 == IF ReferencePathTruthy(S[i].input_path)
              THEN SetKey(c0, "InputPath", JStr(S[i].input_path))
              ELSE c0
    IN  IF ReferencePathTruthy(S[i].output_path)
        THEN SetKey(c1, "OutputPath", JStr(S[i].output_path))
        ELSE c1

\* mutant: the last state's End goes missing, every state gets a Next
compile_NextOrEnd_no_end(S, i) ==
    LET c0 == compile_InputPathOutputPath(S, i)
    IN  IF S[i].next_state # 0
        THEN SetKey(c0, "Next", JStr(S[S[i].next_state].name))
        ELSE SetKey(c0, "Next", JStr(S[i].name))

\* AbstractNextOrEndState.compile
compile_NextOrEnd(S, i) ==
    LET c0 == compile_InputPathOutputPath(S, i)
    IN  IF S[i].next_state # 0
        THEN SetKey(c0, "Next", JStr(S[S[i].next_state].name))
        ELSE SetKey(c0, "End", JTrue)

\* AbstractResultPathState.compile
\* mutant: if self.result_path:
compile_ResultPath_if_truthy(S, i) ==
    LET c0 == compile_NextOrEnd(S, i)
        rp == S[i].result_path
    IN  IF ~rp.none /\ ReferencePathTruthy(rp.s)
        THEN SetKey(c0, "ResultPath", JStr(rp.s))
        ELSE c0

\* AbstractResultPathState.compile
compile_ResultPath(S, i) ==
    LET c0 == compile_NextOrEnd(S, i)
        rp == S[i].result_path
    IN  IF rp.none \/ ReferencePathTruthy(rp.s)
        THEN SetKey(c0, "ResultPath",
                    IF ~rp.none /\ ReferencePathTruthy(rp.s)
                    THEN JStr(rp.s) ELSE JNull)
        ELSE c0

\* AbstractParametersState.compile
compile_Parameters(S, i) ==
    LET c0 == compile_ResultPath(S, i)
    IN  IF S[i].parameters # <<>>
        THEN SetKey(c0, "Parameters", JItems(S[i].parameters))
        ELSE c0

\* AbstractResultSelectorState.compile
compile_ResultSelector(S, i) ==
    LET c0 == compile_Parameters(S, i)
    IN  IF DictArgTruthy(S[i].result_selector)
        THEN SetKey(c0, "ResultSelector", JItems(S[i].result_selector.items))
        ELSE c0

\* AbstractRetryCatchState.compile
compile(S, i) ==
    LET c0 == compile_ResultSelector(S, i)
        c1 == IF S[i].retriers # <<>>
              THEN SetKey(c0, "Retry", JItems(S[i].retriers))
              ELSE c0
    IN  IF S[i].catchers # <<>>
        THEN SetKey(c1, "Catch", JItems(S[i].catchers))
        ELSE c1

\* StateMachine.compile: StartAt, and the compiled form of every state the
\* for loop over start_state yields, by name
MachineCompiled(S, s) ==
    LET w == Follow(S, s, Len(S))
        names == {S[w[k]].name : k \in 1..Len(w)}
        last(nm) == CHOOSE k \in 1..Len(w) :
                        /\ S[w[k]].name = nm
                        /\ \A j \in 1..Len(w) : S[w[j]].name = nm => j <= k
    IN  [of      |-> s,
         StartAt |-> S[s].name,
         States  |-> [nm \in names |-> compile(S, w[last(nm)])]]

NotCompiled == [of |-> 0, StartAt |-> <<>>, States |-> <<>>]

----------------------------------------------------------------------------
(* Values the model draws from *)

F == <<"f">>
G == <<"g">>

P_root == <<"$">>
P_f == <<"$", ".", "f">>
P_g == <<"$", ".", "g">>
P_star == <<"$", ".", "f", "*">>

\* "$.dataset2" of tests/test_pass_state.py, shortened: a field name with a
\* digit, and "comment"
D2 == <<"d", "2">>
P_d2 == <<"$", ".", "d", "2">>
Comment == <<"c">>

Some(str) == [none |-> FALSE, s |-> str]
NoneStr == [none |-> TRUE, s |-> <<>>]
Dict(its) == [none |-> FALSE, items |-> its]
NoneDict == [none |-> TRUE, items |-> <<>>]

LongName(n) == [i \in 1..n |-> "x"]

L_none == Scalar(VNone)
L_zero == Scalar(VInt(0))
L_int == Scalar(VInt(3))
L_empty == [objs |-> <<EmptyDict>>, root |-> VRef(1)]
L_flat == [objs |-> <<(F :> VInt(1)) @@ (G :> VInt(2))>>, root |-> VRef(1)]
L_falsy == [objs |-> <<(F :> VInt(0)) @@ (G :> VInt(2))>>, root |-> VRef(1)]
L_nested ==
    [objs |-> <<(F :> VRef(2)) @@ (G :> VInt(2)), (G :> VInt(5))>>,
     root |-> VRef(1)]
L_nested_empty ==
    [objs |-> <<(F :> VRef(2)) @@ (G :> VInt(2)), EmptyDict>>,
     root |-> VRef(1)]

\* {"c": 1, "d2": {"g": 5}}
L_dataset ==
    [objs |-> <<(Comment :> VInt(1)) @@ (D2 :> VRef(2)), (G :> VInt(5))>>,
     root |-> VRef(1)]

Inputs ==
    {L_none, L_zero, L_int, L_empty, L_flat, L_falsy, L_nested, L_nested_empty,
     L_dataset}

MockOutputs ==
    {L_none, Scalar(VBool(FALSE)), Scalar(VInt(7)), Scalar(VStr(0)),
     Scalar(VList(0)), L_empty, L_falsy, L_nested}

Sel_g == <<<<<<"f", ".", "$">>, P_g>>>>
Sel_two == <<<<<<"f", ".", "$">>, P_f>>, <<<<"g", ".", "$">>, P_root>>>>
Sel_bad_key == <<<<F, P_g>>>>
Sel_bad_path == <<<<<<"f", ".", "$">>, P_star>>>>

\* parameters={"p": 9, "q.$": "$.f"}: a static value and a selected one
Par_two ==
    <<[key |-> <<"p">>, static |-> TRUE, value |-> VInt(9), path |-> <<>>],
      [key |-> <<"q", ".", "$">>, static |-> FALSE, value |-> VNone,
       path |-> P_f]>>

\* the constructor calls of the single-state specification
SpecArgs ==
    [name            : {<<"P">>, LongName(MAX_STATE_NAME_LENGTH + 1)},
     comment         : {NoneStr},
     input_path      : {P_root, P_f, P_g, P_d2, P_star},
     output_path     : {P_root, P_f, P_star},
     result_path     : {NoneStr, Some(<<>>), Some(P_root), Some(P_f),
                        Some(P_g), Some(P_d2), Some(P_star)},
     parameters      : {NoneDict, Dict(Par_two)},
     result_path_given : {TRUE},
     result_selector : {NoneDict, Dict(<<>>), Dict(Sel_g), Dict(Sel_two),
                        Dict(Sel_bad_key), Dict(Sel_bad_path)},
     kind            : {"Pass", "Task"}]

\* the name of the i-th state constructed: "P1", "P11", ...
NameOf(i) == <<"P">> \o [j \in 1..i |-> "1"]

Args(name, comment, kind, inp, resp, outp, sel) ==
    [name |-> name, comment |-> comment, input_path |-> inp,
     output_path |-> outp, result_path |-> resp, parameters |-> NoneDict,
     result_path_given |-> TRUE,
     result_selector |-> sel, kind |-> kind]

\* the constructor calls of the chain specification: Pass states, the first
\* with or without a comment
ChainArgs(i) ==
    {Args(NameOf(i), c, "Pass", P_root, Some(P_root), P_root, NoneDict) :
        c \in IF i = 1 THEN {NoneStr, Some(<<"c">>)} ELSE {NoneStr}}

\* the constructor calls of the machine specification
MachineArgs(i) ==
    {Args(NameOf(i), NoneStr, "Pass", P_root, Some(P_root), P_root, NoneDict),
     Args(NameOf(i), NoneStr, "Pass", P_f, Some(P_root), P_root, NoneDict),
     Args(NameOf(i), NoneStr, "Task", P_root, Some(P_g), P_root,
          Dict(Sel_two))}

MachineInputs == {L_empty, L_nested}

MachineMocks == {L_none, L_falsy}

NoTrav == [start |-> 0, live |-> FALSE, clean |-> TRUE, yielded |-> <<>>]

----------------------------------------------------------------------------
(* Actions *)

Call(stage, a, b, out) == [stage |-> stage, a |-> a, b |-> b, out |-> out]

\* PassState(...) / TaskState(...): the constructor
Construct(args) ==
    /\ pc \in {"idle", "done", "raised"}
    /\ IF ConstructorRaises(args)
       THEN /\ err' = "ValueError"
            /\ UNCHANGED states
       ELSE /\ err' = "none"
            /\ states' = Append(states, NewState(args))
    /\ pc' = "idle"
    /\ UNCHANGED chainvars
    /\ UNCHANGED <<heap, start, input_lit, data, visited, result, self,
                   raw_input, state_input, state_output, ret, calls>>
    /\ UNCHANGED attempts

\* StateMachine(start_state=s).simulate(state_input=...): the default input
\* {}, and the for loop's iter(self.start_state)
MachineSimulate(s, given, lit) ==
    /\ pc \in {"idle", "done", "raised"}
    /\ LET input == IF given THEN lit ELSE L_empty
       IN  /\ heap' = AllocHeap(<<>>, input)
           /\ data' = AllocRoot(<<>>, input)
           /\ input_lit' = input
    /\ states' = iter(states, s)
    /\ travs' = Disturb(travs, s, 0)
    /\ UNCHANGED <<chain, compiled>>
    /\ start' = s
    /\ pc' = "next"
    /\ visited' = <<>>
    /\ result' = VNone
    /\ self' = 0
    /\ raw_input' = VNone
    /\ state_input' = VNone
    /\ state_output' = VNone
    /\ ret' = VNone
    /\ err' = "none"
    /\ calls' = <<>>
    /\ attempts' = <<>>

\* the for loop's next(): either StopIteration, and simulate returns the
\* current data, or the next state's simulate is called with it
MachineNext ==
    /\ pc = "next"
    /\ IF next_stops(states, start)
       THEN /\ pc' = "done"
            /\ result' = data
            /\ UNCHANGED <<states, visited, self, raw_input, calls, travs,
                           attempts>>
       ELSE /\ Len(visited) < MaxVisits
            /\ self' = next_value(states, start)
            /\ states' = next_advance(states, start)
            /\ travs' = Disturb(travs, start, 0)
            /\ visited' = Append(visited, next_value(states, start))
            /\ raw_input' = data
            /\ calls' = <<>>
            /\ attempts' = [k \in 1..Len(states[next_value(states, start)]
                                                .retriers) |-> 0]
            /\ pc' = "input_path"
            /\ UNCHANGED result
    /\ UNCHANGED <<heap, start, input_lit, data, state_input, state_output,
                   ret, err, chain, compiled>>

\* line 411
ApplyInputPath ==
    /\ pc = "input_path"
    /\ LET v == apply_input_path(states[self], heap, raw_input)
       IN  /\ state_input' = v
           /\ calls' = Append(calls, Call("input_path", raw_input, VNone, v))
    /\ pc' = NextStage("input_path", states[self])
    /\ UNCHANGED chainvars
    /\ UNCHANGED <<states, heap, start, input_lit, data, visited, result,
                   self, raw_input, state_output, ret, err>>
    /\ UNCHANGED attempts

\* line 412
Execute(mocks) ==
    /\ pc = "execute"
    /\ \E w \in ExecOutcomes(states[self], heap, state_input, mocks) :
          /\ heap' = OrEmptyHeap(w.h, w.v)
          /\ state_output' = OrEmptyVal(w.h, w.v)
          /\ calls' = Append(calls, Call("execute", state_input, w.v,
                                         OrEmptyVal(w.h, w.v)))
    /\ pc' = NextStage("execute", states[self])
    /\ UNCHANGED chainvars
    /\ UNCHANGED <<states, start, input_lit, data, visited, result, self,
                   raw_input, state_input, ret, err>>
    /\ UNCHANGED attempts

\* lines 413-419
ApplyResultSelector ==
    /\ pc = "result_selector"
    /\ IF apply_result_selector_raises(states[self])
       THEN /\ err' = "ValueError"
            /\ pc' = "raised"
            /\ UNCHANGED <<heap, state_output, calls>>
       ELSE /\ heap' = Append(heap,
                   apply_result_selector(states[self], heap, state_output))
            /\ state_output' = VRef(Len(heap) + 1)
            /\ calls' = Append(calls, Call("result_selector", state_output,
                                           VNone, VRef(Len(heap) + 1)))
            /\ pc' = NextStage("result_selector", states[self])
            /\ UNCHANGED err
    /\ UNCHANGED chainvars
    /\ UNCHANGED <<states, start, input_lit, data, visited, result, self,
                   raw_input, state_input, ret>>
    /\ UNCHANGED attempts

\* line 420
ApplyResultPath ==
    /\ pc = "result_path"
    /\ LET w == apply_result_path(states[self], heap, state_input,
                                  state_output)
       IN  IF w.e # "none"
           THEN /\ err' = w.e
                /\ pc' = "raised"
                /\ UNCHANGED <<heap, state_output, calls>>
           ELSE /\ heap' = w.h
                /\ state_output' = w.v
                /\ calls' = Append(calls, Call("result_path", state_input,
                                               state_output, w.v))
                /\ pc' = NextStage("result_path", states[self])
                /\ UNCHANGED err
    /\ UNCHANGED chainvars
    /\ UNCHANGED <<states, start, input_lit, data, visited, result, self,
                   raw_input, state_input, ret>>
    /\ UNCHANGED attempts

\* line 421, and the assignment of the returned value to the current data
ApplyOutputPath ==
    /\ pc = "output_path"
    /\ LET v == apply_output_path(states[self], heap, state_output)
       IN  /\ ret' = v
           /\ data' = v
           /\ calls' = Append(calls, Call("output_path", state_output,
                                          VNone, v))
    /\ pc' = NextStage("output_path", states[self])
    /\ UNCHANGED chainvars
    /\ UNCHANGED <<states, heap, start, input_lit, visited, result, self,
                   raw_input, state_input, state_output, err>>
    /\ UNCHANGED attempts

Simulate(mocks) ==
    \/ MachineNext
    \/ ApplyInputPath
    \/ Execute(mocks)
    \/ ApplyResultSelector
    \/ ApplyResultPath
    \/ ApplyOutputPath

simvars == <<heap, pc, start, input_lit, data, visited, result, self,
             raw_input, state_input, state_output, ret, err, calls, attempts>>

\* a >> b, the first >> of the expression
ChainStart(a, b) ==
    /\ chain = <<>>
    /\ states' = rshift(states, a, b)
    /\ chain' = <<a, b>>
    /\ UNCHANGED <<simvars, travs, compiled>>

\* (... >> b) >> c: the left operand is what the previous >> returned
ChainExtend(c) ==
    /\ chain # <<>>
    /\ Len(chain) < MaxChain
    /\ states' = rshift(states, chain[Len(chain)], c)
    /\ chain' = Append(chain, c)
    /\ UNCHANGED <<simvars, travs, compiled>>

\* for state in s: the loop begins with iter(s)
TravIter(t, s) ==
    /\ states' = iter(states, s)
    /\ travs' = [Disturb(travs, s, t) EXCEPT
                    ![t] = [start |-> s, live |-> TRUE, clean |-> TRUE,
                            yielded |-> <<>>]]
    /\ UNCHANGED <<simvars, chain, compiled>>

\* the loop's next(s): StopIteration ends it, otherwise it yields a state
TravNext(t) ==
    /\ travs[t].live
    /\ LET s == travs[t].start
       IN  IF next_stops(states, s)
           THEN /\ travs' = [travs EXCEPT ![t].live = FALSE]
                /\ UNCHANGED states
           ELSE /\ Len(travs[t].yielded) < MaxVisits
                /\ states' = next_advance(states, s)
                /\ travs' = [Disturb(travs, s, t) EXCEPT
                                ![t].yielded = Append(@, next_value(states, s))]
    /\ UNCHANGED <<simvars, chain, compiled>>

\* StateMachine(start_state=s).compile(): it returns when its for loop over
\* the states ends, which leaves s._current None
MachineCompile(s) ==
    /\ Acyclic(states, s)
    /\ compiled' = MachineCompiled(states, s)
    /\ states' = [states EXCEPT ![s].current = 0]
    /\ travs' = Disturb(travs, s, 0)
    /\ UNCHANGED <<simvars, chain>>

----------------------------------------------------------------------------
(* One state, constructed with any arguments and simulated on any input *)

Init ==
    /\ states = <<>>
    /\ heap = <<>>
    /\ pc = "idle"
    /\ start = 0
    /\ input_lit = L_none
    /\ data = VNone
    /\ visited = <<>>
    /\ result = VNone
    /\ self = 0
    /\ raw_input = VNone
    /\ state_input = VNone
    /\ state_output = VNone
    /\ ret = VNone
    /\ err = "none"
    /\ calls = <<>>
    /\ attempts = <<>>
    /\ chain = <<>>
    /\ travs = [t \in 1..MaxTravs |-> NoTrav]
    /\ compiled = NotCompiled

ConstructOne == \E args \in SpecArgs : states = <<>> /\ Construct(args)

SimulateOne ==
    \E s \in 1..Len(states), given \in BOOLEAN, lit \in Inputs :
        /\ given \/ lit = L_empty
        /\ MachineSimulate(s, given, lit)

Next == ConstructOne \/ SimulateOne \/ Simulate(MockOutputs)

Spec == Init /\ [][Next]_vars

----------------------------------------------------------------------------
(* Properties of one state's simulate *)

\* the simulate call of states[self] has returned
Returned == self # 0 /\ pc \in {"next", "done"}

HasSelector(st) == DictArgTruthy(st.result_selector)

ExpectedStages(st) ==
    IF HasSelector(st)
    THEN <<"input_path", "execute", "result_selector", "result_path",
           "output_path">>
    ELSE <<"input_path", "execute", "result_path", "output_path">>

\* C1: in every simulate call the stages run in the order input path,
\* _execute, result selector (only if configured), result path, output path,
\* each at most once; _execute gets the input-path-filtered value, the
\* selector gets the execution output, the result path gets the
\* post-InputPath input and the post-ResultSelector output, the output path
\* gets the result path's value, and its value is what simulate returns.
C1_StagesInOrder ==
    self # 0 =>
        LET exp == ExpectedStages(states[self])
            n == Len(calls)
            r == Len(exp) - 1
        IN  /\ n <= Len(exp)
            /\ \A i \in 1..n : calls[i].stage = exp[i]
            /\ n >= 1 => calls[1].a = raw_input
            /\ n >= 2 => calls[2].a = calls[1].out
            /\ (HasSelector(states[self]) /\ n >= 3) =>
                   calls[3].a = calls[2].out
            /\ n >= r => /\ calls[r].a = calls[1].out
                         /\ calls[r].b = calls[r - 1].out
            /\ n = Len(exp) => /\ calls[n].a = calls[r].out
                               /\ ret = calls[n].out
            /\ Returned => n = Len(exp)

C1_Witness ==
    /\ Returned
    /\ HasSelector(states[self])
    /\ Len(calls) = 5
    /\ states[self].input_path # P_root
    /\ Truthy(heap, ret)

\* C2: with result_path None the value handed to the output-path stage is
\* the post-InputPath input, whatever _execute returned, and with output
\* path "$" it is the value simulate returns.
C2_NoneDiscardsOutput ==
    (self # 0 /\ states[self].result_path.none
        /\ Len(calls) = Len(ExpectedStages(states[self]))) =>
        LET n == Len(calls)
        IN  /\ calls[n].a = calls[1].out
            /\ states[self].output_path = P_root => ret = calls[1].out

C2_Witness ==
    /\ Returned
    /\ states[self].result_path.none
    /\ states[self].output_path = P_root
    /\ states[self].kind = "Task"
    /\ Truthy(heap, calls[2].b)
    /\ calls[2].out # calls[1].out
    /\ ret = calls[1].out

\* C3: with result_path "$.field", a result-path stage that returns leaves
\* the post-InputPath input mapping with key field set to the
\* post-ResultSelector output and every other key (and every other mapping)
\* as it was, and that input is the stage's value.
C3_FieldMerge ==
    [][(pc = "result_path" /\ pc' = "output_path"
          /\ ResultPathBranch(states[self]) = "field") =>
        LET key == MatchGroup1(StrResultPath(states[self]))
            a == state_input.n
        IN  /\ state_input.k = "ref"
            /\ state_output' = state_input
            /\ DOMAIN heap'[a] = DOMAIN heap[a] \cup {key}
            /\ heap'[a][key] = state_output
            /\ \A x \in DOMAIN heap[a] \ {key} : heap'[a][x] = heap[a][x]
            /\ Len(heap') = Len(heap)
            /\ \A o \in 1..Len(heap) : o # a => heap'[o] = heap[o]]_vars

C3_Witness ==
    /\ pc = "output_path"
    /\ ResultPathBranch(states[self]) = "field"
    /\ state_output.k = "ref"
    /\ LET key == MatchGroup1(StrResultPath(states[self]))
       IN  /\ Cardinality(DOMAIN heap[state_output.n]) >= 2
           /\ heap[state_output.n][key] = calls[Len(calls)].b
           /\ heap[state_output.n][key] # state_output

PassWithPaths(st, inp, resp, outp) ==
    /\ st.kind = "Pass"
    /\ st.input_path = inp
    /\ StrResultPath(st) = resp
    /\ st.output_path = outp
    /\ ~HasSelector(st)

\* the caller's input is a mapping with these keys
InputHasKeys(keys) ==
    /\ input_lit.root = VRef(1)
    /\ keys \subseteq DOMAIN input_lit.objs[1]

\* C4: a Pass state with input_path "$.f" and the default result path and
\* output path, simulated on a mapping that has key f, outputs input[f].
C4_PassOutputsField ==
    (Returned /\ PassWithPaths(states[self], P_f, P_root, P_root)
        /\ InputHasKeys({F})) =>
        PyEq(heap, ret, input_lit.objs[1][F])

\* the value of key d2 of the caller's input as written, in a heap where the
\* caller's literal has been evaluated again
OriginalNested == Relocate(input_lit.objs[1][D2], Len(heap))

\* C5 as claimed: the simulate call of a Pass state with input_path "$.d2"
\* and result_path "$.d2" on a mapping with keys c and d2 returns, and what
\* it returns is the nested value of d2 as the caller wrote it, with no key
\* added.
C5_OutputsNestedUnchanged ==
    (self # 0 /\ pc \in {"next", "done", "raised"}
        /\ PassWithPaths(states[self], P_d2, P_d2, P_root)
        /\ InputHasKeys({Comment, D2})) =>
        /\ Returned
        /\ PyEq(AllocHeap(heap, input_lit), ret, OriginalNested)

\* C6: the mapping the selector stage builds has, for each selector entry
\* whose reference path resolves in the raw execution output to a value that
\* is present and not falsy, the entry's key without its ".$" suffix mapped
\* to that value, and no other key.
C6_SelectorOutput ==
    (self # 0 /\ pc = "result_path" /\ Len(calls) = 3
        /\ calls[3].stage = "result_selector") =>
        LET items == states[self].result_selector.items
            raw == calls[2].b
            new == heap[state_output.n]
            hit(i) == Truthy(heap, ReferencePathApply(heap, items[i][2], raw))
        IN  /\ state_output = calls[3].out
            /\ \A i \in 1..Len(items) :
                   hit(i) =>
                       /\ DropLastTwo(items[i][1]) \in DOMAIN new
                       /\ new[DropLastTwo(items[i][1])] =
                              ReferencePathApply(heap, items[i][2], raw)
            /\ \A x \in DOMAIN new :
                   \E i \in 1..Len(items) :
                       DropLastTwo(items[i][1]) = x /\ hit(i)

C6_Witness ==
    /\ self # 0
    /\ pc = "result_path"
    /\ Len(calls) = 3
    /\ calls[3].stage = "result_selector"
    /\ Len(states[self].result_selector.items) = 2
    /\ calls[2].b.k = "ref"
    /\ DOMAIN heap[calls[2].b.n] = {F, G}
    /\ DOMAIN heap[state_output.n] = {G}

ValidSelectorItems(items) ==
    \A i \in 1..Len(items) :
        /\ LastTwo(items[i][1]) = <<".", "$">>
        /\ IsValidReferencePath(items[i][2])

\* C10: a constructor call with an invalid input path, output path or result
\* path, a selector key without ".$" or an invalid selector path creates no
\* state (every state that exists has valid ones), a validation error is
\* only ever raised by a constructor, and a simulate call never raises one.
C10_ValidationAtConstruction ==
    /\ \A s \in 1..Len(states) :
          /\ IsValidReferencePath(states[s].input_path)
          /\ IsValidReferencePath(states[s].output_path)
          /\ ~states[s].result_path.none =>
                 IsValidReferencePath(states[s].result_path.s)
          /\ HasSelector(states[s]) =>
                 ValidSelectorItems(states[s].result_selector.items)
    /\ err = "ValueError" => pc = "idle"
    /\ pc = "raised" => err \in {"TypeError", "AssertionError"}

C10_Witness ==
    /\ Returned
    /\ HasSelector(states[self])
    /\ Len(calls) = 5
    /\ states[self].input_path = P_g
    /\ ~states[self].result_path.none

----------------------------------------------------------------------------
(* A chain: states are constructed, linked by one >> expression, and then  *)
(* compiled and iterated over, one for loop at a time                      *)

NoTravYet == \A t \in 1..MaxTravs : travs[t].start = 0

ChainConstruct ==
    \E args \in ChainArgs(Len(states) + 1) :
        /\ Len(states) < MaxStates
        /\ chain = <<>>
        /\ NoTravYet
        /\ compiled = NotCompiled
        /\ Construct(args)

ChainLink ==
    /\ NoTravYet
    /\ compiled = NotCompiled
    /\ \/ \E a, b \in 1..Len(states) : ChainStart(a, b)
       \/ \E c \in 1..Len(states) : ChainExtend(c)

\* one compilation, before, during or after the loop
ChainCompile ==
    /\ compiled = NotCompiled
    /\ \E s \in 1..Len(states) : MachineCompile(s)

\* one for loop, over any state
ChainIter ==
    /\ NoTravYet
    /\ \E s \in 1..Len(states) : TravIter(1, s)

ChainStep == TravNext(1)

NextChain ==
    ChainConstruct \/ ChainLink \/ ChainCompile \/ ChainIter \/ ChainStep

SpecChain == Init /\ [][NextChain]_vars

\* a for loop that has begun keeps calling next() until StopIteration
SpecChainLoop == SpecChain /\ WF_vars(ChainStep)

----------------------------------------------------------------------------
(* A machine: states are constructed, linked into a chain of distinct      *)
(* states, and the machine is simulated from any of them                   *)

MachineConstruct ==
    \E args \in MachineArgs(Len(states) + 1) :
        /\ Len(states) < MaxStates
        /\ chain = <<>>
        /\ pc = "idle"
        /\ start = 0
        /\ Construct(args)

InChain(c) == \E k \in 1..Len(chain) : chain[k] = c

MachineLink ==
    /\ pc = "idle"
    /\ start = 0
    /\ \/ \E a, b \in 1..Len(states) : a # b /\ ChainStart(a, b)
       \/ \E c \in 1..Len(states) : ~InChain(c) /\ ChainExtend(c)

MachineRun ==
    \E s \in 1..Len(states), given \in BOOLEAN, lit \in MachineInputs :
        /\ given \/ lit = L_empty
        /\ start = 0
        /\ MachineSimulate(s, given, lit)

NextMachine ==
    MachineConstruct \/ MachineLink \/ MachineRun \/ Simulate(MachineMocks)

SpecMachine == Init /\ [][NextMachine]_vars

----------------------------------------------------------------------------
(* Properties of chains *)

Distinct(q) == \A i, j \in 1..Len(q) : q[i] = q[j] => i = j

IsPrefix(p, q) == Len(p) <= Len(q) /\ \A i \in 1..Len(p) : p[i] = q[i]

\* the compiled form c is right about the successor of state i
NextOrEnd(c, i) ==
    /\ ("Next" \in DOMAIN c) # ("End" \in DOMAIN c)
    /\ IF states[i].next_state # 0
       THEN /\ "Next" \in DOMAIN c
            /\ c["Next"] = JStr(states[states[i].next_state].name)
       ELSE /\ "End" \in DOMAIN c
            /\ c["End"] = JTrue

\* C7: the compiled form of every state has exactly one of "Next" and "End",
\* "Next" being the name of its successor if it has one and "End" true
\* otherwise; a compiled machine holds these forms for the states of the
\* chain, by name, and its StartAt is the name of the start state.
C7_NextOrEnd ==
    /\ \A i \in 1..Len(states) : NextOrEnd(compile(states, i), i)
    /\ compiled.of # 0 =>
          LET w == Follow(states, compiled.of, Len(states))
          IN  /\ compiled.StartAt = states[compiled.of].name
              /\ DOMAIN compiled.States = {states[w[k]].name : k \in 1..Len(w)}
              /\ \A k \in 1..Len(w) :
                     NextOrEnd(compiled.States[states[w[k]].name], w[k])

C7_Witness ==
    /\ Len(chain) = 3
    /\ Distinct(chain)
    /\ compiled.of = chain[1]
    /\ Cardinality(DOMAIN compiled.States) = 3
    /\ "End" \in DOMAIN compiled.States[states[chain[3]].name]
    /\ "Next" \in DOMAIN compiled.States[states[chain[1]].name]

\* C8: after s1 >> s2 >> ... >> sn over distinct states, a for loop over s1
\* that nothing else disturbs yields s1, ..., sn in that order, each once,
\* and ends when the cursor has left sn, which has no successor.
C8_IterationYieldsChain ==
    \A t \in 1..MaxTravs :
        (Len(chain) >= 2 /\ Distinct(chain) /\ travs[t].start = chain[1]
            /\ travs[t].clean) =>
            /\ IsPrefix(travs[t].yielded, chain)
            /\ ~travs[t].live => travs[t].yielded = chain
            /\ (travs[t].live /\ travs[t].yielded = chain) =>
                   /\ states[chain[Len(chain)]].next_state = 0
                   /\ next_stops(states, chain[1])

C8_Witness ==
    /\ Len(chain) = 3
    /\ Distinct(chain)
    /\ chain[1] # 1
    /\ travs[1].start = chain[1]
    /\ travs[1].clean
    /\ ~travs[1].live
    /\ travs[1].yielded = chain

StagePcs ==
    {"input_path", "execute", "result_selector", "result_path", "output_path"}

DefaultOutput(st) ==
    /\ st.kind = "Pass"
    /\ StrResultPath(st) = P_root
    /\ st.output_path = P_root
    /\ ~HasSelector(st)

\* C9: a simulation calls simulate on the states of the chain in link order
\* from the start state, each once; the first gets the machine's input,
\* every other one the value the state before it returned, and the machine
\* returns what the last one returned; a chain of Pass states with the
\* default result and output path, simulated with no input, returns {}.
C9_MachineRunsChain ==
    start # 0 =>
        LET w == Follow(states, start, Len(states))
        IN  /\ IsPrefix(visited, w)
            /\ pc = "done" => /\ visited = w
                              /\ result = ret
                              /\ result = data
            /\ pc \in StagePcs =>
                   /\ self = visited[Len(visited)]
                   /\ raw_input = data
                   /\ raw_input = IF Len(visited) = 1
                                  THEN AllocRoot(<<>>, input_lit)
                                  ELSE ret
            /\ (pc = "next" /\ visited # <<>>) => data = ret
            /\ (pc = "done" /\ input_lit = L_empty
                  /\ \A k \in 1..Len(w) : DefaultOutput(states[w[k]])) =>
                   /\ result.k = "ref"
                   /\ heap[result.n] = EmptyDict

C9_Witness ==
    /\ pc = "done"
    /\ Len(chain) = 3
    /\ start = chain[1]
    /\ start # 1
    /\ visited = chain
    /\ states[chain[1]].kind = "Task"
    /\ states[chain[2]].input_path = P_f
    /\ Truthy(heap, result)

----------------------------------------------------------------------------
(* Retry and Catch *)

\* an optional argument left at its default None
Unset == -1

\* Retrier's max_attempts when it is not given (add_retrier's docstring)
DEFAULT_MAX_ATTEMPTS == 3

StatesALL == "States.ALL"

\* AbstractRetryCatchState.add_retrier: self.retriers.append(Retrier(...))
add_retrier(S, s, error_equals, max_attempts) ==
    [S EXCEPT ![s].retriers =
        Append(@, [error_equals |-> error_equals, interval_seconds |-> Unset,
                   backoff_rate |-> Unset, max_attempts |-> max_attempts])]

\* AbstractRetryCatchState.add_catcher: self.catchers.append(Catcher(...))
add_catcher(S, s, error_equals, next_state) ==
    [S EXCEPT ![s].catchers =
        Append(@, [error_equals |-> error_equals, next_state |-> next_state])]

\* mutant: max_attempts or DEFAULT_MAX_ATTEMPTS, which takes 0 for unset
MaxAttemptsOf_zero_is_unset(retrier) ==
    IF retrier.max_attempts = Unset \/ retrier.max_attempts = 0
    THEN DEFAULT_MAX_ATTEMPTS
    ELSE retrier.max_attempts

\* the retries a retrier allows
MaxAttemptsOf(retrier) ==
    IF retrier.max_attempts = Unset THEN DEFAULT_MAX_ATTEMPTS
    ELSE retrier.max_attempts

\* an error name matches error_equals: the exact name, or "States.ALL"
ErrorMatches(error_equals, e) ==
    \E k \in 1..Len(error_equals) :
        error_equals[k] = e \/ error_equals[k] = StatesALL

\* mutant: the last match wins
FirstMatch_takes_last(q, e) ==
    IF \E k \in 1..Len(q) : ErrorMatches(q[k].error_equals, e)
    THEN CHOOSE k \in 1..Len(q) :
            /\ ErrorMatches(q[k].error_equals, e)
            /\ \A j \in (k + 1)..Len(q) : ~ErrorMatches(q[j].error_equals, e)
    ELSE 0

\* the first retrier or catcher of the list q that matches e (0: none)
FirstMatch(q, e) ==
    IF \E k \in 1..Len(q) : ErrorMatches(q[k].error_equals, e)
    THEN CHOOSE k \in 1..Len(q) :
            /\ ErrorMatches(q[k].error_equals, e)
            /\ \A j \in 1..(k - 1) : ~ErrorMatches(q[j].error_equals, e)
    ELSE 0

\* the running state has a retrier for the error with attempts left
RetryApplies ==
    LET k == FirstMatch(states[self].retriers, err)
    IN  k # 0 /\ attempts[k] < MaxAttemptsOf(states[self].retriers[k])

ErrorKey == <<"E", "r", "r", "o", "r">>

ErrorId(e) == IF e = "E1" THEN 1 ELSE 2

\* the failure information a catcher hands to its next state
FailureInfo(e) == ErrorKey :> VStr(ErrorId(e))

\* state.add_retrier(error_equals, max_attempts=...)
AddRetrier(s, error_equals, max_attempts) ==
    /\ states' = add_retrier(states, s, error_equals, max_attempts)
    /\ UNCHANGED <<simvars, chainvars>>

\* state.add_catcher(error_equals, next_state=t)
AddCatcher(s, error_equals, t) ==
    /\ states' = add_catcher(states, s, error_equals, t)
    /\ UNCHANGED <<simvars, chainvars>>

\* line 412 when the mock of a task raises: nothing in simulate handles the
\* exception, so it leaves the state's simulate
ExecuteRaises(errors) ==
    /\ pc = "execute"
    /\ states[self].kind = "Task"
    /\ \E e \in errors : err' = e
    /\ pc' = "failed"
    /\ UNCHANGED <<states, heap, start, input_lit, data, visited, result,
                   self, raw_input, state_input, state_output, ret, calls,
                   attempts, chainvars>>

\* the error matches a retrier that has attempts left: the state's simulate
\* is called again with the same input
MachineRetry ==
    /\ pc = "failed"
    /\ RetryApplies
    /\ attempts' = [attempts EXCEPT
                       ![FirstMatch(states[self].retriers, err)] = @ + 1]
    /\ calls' = <<>>
    /\ err' = "none"
    /\ pc' = "input_path"
    /\ UNCHANGED <<states, heap, start, input_lit, data, visited, result,
                   self, raw_input, state_input, state_output, ret,
                   chainvars>>

\* no retry is left: the first catcher that matches names the state the
\* simulation goes on with, its input the failure information; without one
\* the error leaves StateMachine.simulate
MachineCatch ==
    /\ pc = "failed"
    /\ ~RetryApplies
    /\ LET c == FirstMatch(states[self].catchers, err)
       IN  IF c # 0
           THEN /\ states' = [states EXCEPT ![start].current =
                                 states[self].catchers[c].next_state]
                /\ travs' = Disturb(travs, start, 0)
                /\ heap' = Append(heap, FailureInfo(err))
                /\ data' = VRef(Len(heap) + 1)
                /\ err' = "none"
                /\ pc' = "next"
           ELSE /\ pc' = "raised"
                /\ UNCHANGED <<states, travs, heap, data, err>>
    /\ UNCHANGED <<start, input_lit, visited, result, self, raw_input,
                   state_input, state_output, ret, calls, attempts, chain,
                   compiled>>

IsPrefixOfSome(q, plans) ==
    \E p \in plans :
        /\ Len(q) <= Len(p)
        /\ \A k \in 1..Len(q) : q[k] = p[k]

PlanCalls(plans) == UNION {{p[k] : k \in 1..Len(p)} : p \in plans}

\* the add_retrier calls made on the task: <<error_equals, max_attempts>>
RetrierPlans ==
    {<<<<<<"E1">>, Unset>>>>,
     <<<<<<"E1">>, 0>>>>,
     <<<<<<"E2">>, 1>>, <<<<StatesALL>>, 2>>>>,
     <<<<<<StatesALL>>, 0>>, <<<<"E1">>, 2>>>>}

\* the add_catcher calls made on the task: error_equals
CatcherPlans ==
    {<<<<"E1">>, <<"E1", "E3">>>>,
     <<<<"E2">>, <<StatesALL>>>>}

RetrierCalls(st) ==
    [k \in 1..Len(st.retriers) |->
        <<st.retriers[k].error_equals, st.retriers[k].max_attempts>>]

CatcherCalls(st) == [k \in 1..Len(st.catchers) |-> st.catchers[k].error_equals]

\* the states of the retry specification: a task, then Pass states
RetryArgs(i) ==
    IF i = 1
    THEN {Args(NameOf(i), NoneStr, "Task", P_root, Some(P_root), P_root, sel) :
            sel \in {NoneDict, Dict(Sel_two)}}
    ELSE {Args(NameOf(i), NoneStr, "Pass", P_root, Some(P_root), P_root,
               NoneDict)}

RetryErrors == {"E1", "E2"}

RetryMocks == {L_falsy}

Unconfigured ==
    \A i \in 1..Len(states) :
        states[i].retriers = <<>> /\ states[i].catchers = <<>>

RetryConstruct ==
    \E args \in RetryArgs(Len(states) + 1) :
        /\ Len(states) < MaxStates
        /\ Unconfigured
        /\ chain = <<>>
        /\ pc = "idle"
        /\ start = 0
        /\ Construct(args)

RetryAddRetrier ==
    \E r \in PlanCalls(RetrierPlans) :
        /\ states # <<>>
        /\ states[1].catchers = <<>>
        /\ chain = <<>>
        /\ start = 0
        /\ IsPrefixOfSome(Append(RetrierCalls(states[1]), r), RetrierPlans)
        /\ AddRetrier(1, r[1], r[2])

RetryAddCatcher ==
    \E e \in PlanCalls(CatcherPlans), t \in 1..Len(states) :
        /\ chain = <<>>
        /\ start = 0
        /\ IsPrefixOfSome(Append(CatcherCalls(states[1]), e), CatcherPlans)
        /\ AddCatcher(1, e, t)

\* task >> pass1 >> pass2 ..., in the order of construction
OrderedLink ==
    /\ pc = "idle"
    /\ start = 0
    /\ \/ Len(states) >= 2 /\ ChainStart(1, 2)
       \/ /\ chain # <<>>
          /\ Len(chain) < Len(states)
          /\ ChainExtend(Len(chain) + 1)

\* StateMachine(start_state=task).simulate(), any number of times
RetryRun ==
    /\ states # <<>>
    /\ MachineSimulate(1, FALSE, L_empty)

NextRetry ==
    \/ RetryConstruct
    \/ RetryAddRetrier
    \/ RetryAddCatcher
    \/ OrderedLink
    \/ RetryRun
    \/ Simulate(RetryMocks)
    \/ ExecuteRaises(RetryErrors)
    \/ MachineRetry
    \/ MachineCatch

SpecRetry == Init /\ [][NextRetry]_vars

----------------------------------------------------------------------------
(* Properties of Retry and Catch *)

\* retrier or catcher k of the list q is the first that matches e
IsFirstMatch(q, k, e) ==
    /\ k \in 1..Len(q)
    /\ ErrorMatches(q[k].error_equals, e)
    /\ \A j \in 1..(k - 1) : ~ErrorMatches(q[j].error_equals, e)

\* the retries the claim allows a retrier: max_attempts, 3 when unset
Allowed(retrier) ==
    IF retrier.max_attempts = Unset THEN 3 ELSE retrier.max_attempts

\* a retrier matches the error in flight and has retries left
CanRetry ==
    \E k \in 1..Len(states[self].retriers) :
        /\ IsFirstMatch(states[self].retriers, k, err)
        /\ attempts[k] < Allowed(states[self].retriers[k])

\* C11: no retrier of the running state is used for more retries than its
\* max_attempts, 3 when that is unset, so never when it is 0; a failed
\* execution is retried, by the first retrier that matches the error, only
\* while that retrier has retries left, and each retry counts against it.
C11_RetriesBounded ==
    /\ [](self # 0 =>
            /\ DOMAIN attempts = 1..Len(states[self].retriers)
            /\ \A k \in 1..Len(states[self].retriers) :
                   /\ attempts[k] <= Allowed(states[self].retriers[k])
                   /\ states[self].retriers[k].max_attempts = 0 =>
                          attempts[k] = 0)
    /\ [][pc = "failed" =>
            IF CanRetry
            THEN /\ pc' = "input_path"
                 /\ self' = self
                 /\ raw_input' = raw_input
                 /\ \E k \in 1..Len(attempts) :
                        /\ IsFirstMatch(states[self].retriers, k, err)
                        /\ attempts' = [attempts EXCEPT ![k] = @ + 1]
            ELSE /\ pc' # "input_path"
                 /\ attempts' = attempts]_vars

C11_Witness ==
    /\ pc = "raised"
    /\ err = "E1"
    /\ Len(states[self].retriers) = 1
    /\ states[self].retriers[1].max_attempts = Unset
    /\ attempts = <<3>>

\* C12: when no retry is left for the error of a failed execution, the first
\* catcher that matches it, in the order of the add_catcher calls, names the
\* state the simulation goes on with, and its input is the failure
\* information; when no catcher matches, StateMachine.simulate ends with
\* that error and has returned nothing.
C12_CatchOrPropagate ==
    /\ []((pc = "raised" /\ err \in RetryErrors) =>
            /\ result = VNone
            /\ ~CanRetry
            /\ \A c \in 1..Len(states[self].catchers) :
                   ~ErrorMatches(states[self].catchers[c].error_equals, err))
    /\ [][(pc = "failed" /\ ~CanRetry) =>
            IF \E c \in 1..Len(states[self].catchers) :
                   ErrorMatches(states[self].catchers[c].error_equals, err)
            THEN \E c \in 1..Len(states[self].catchers) :
                    /\ IsFirstMatch(states[self].catchers, c, err)
                    /\ pc' = "next"
                    /\ next_value(states', start) =
                           states[self].catchers[c].next_state
                    /\ data'.k = "ref"
                    /\ heap'[data'.n] = ErrorKey :> VStr(ErrorId(err))
            ELSE /\ pc' = "raised"
                 /\ err' = err
                 /\ result' = VNone]_vars

C12_Witness ==
    /\ pc = "raised"
    /\ err = "E2"
    /\ self = 1
    /\ Len(visited) >= 2
    /\ Len(states[1].catchers) = 2
    /\ states[1].catchers[1].next_state = 1
    /\ states[1].catchers[2].next_state # 1
    /\ ErrorMatches(states[1].catchers[2].error_equals, "E1")
    /\ raw_input.k = "ref"
    /\ heap[raw_input.n] = ErrorKey :> VStr(ErrorId("E1"))
    /\ result = VNone

----------------------------------------------------------------------------
(* Compilation of the result path *)

\* result_path: Optional[str] = "$": the value the constructor works with
\* when the call does not name result_path
ResultPathDefault == Some(P_root)

\* the names of the compile specification: short and distinct, or for the
\* first state as long as allowed, or too long by one
CompileNames(i) ==
    {NameOf(i), LongName(MAX_STATE_NAME_LENGTH + 1)}
    \cup IF i = 1 THEN {LongName(MAX_STATE_NAME_LENGTH)} ELSE {}

\* the constructor calls of the compile specification: result_path left
\* out, or given as None, "", "$", "$.f" or the invalid "$.f*"
CompileArgs(i) ==
    {[Args(name, NoneStr, "Pass", P_root, ResultPathDefault, P_root,
           NoneDict) EXCEPT !.result_path_given = FALSE] :
        name \in CompileNames(i)}
    \cup {Args(NameOf(i), NoneStr, "Pass", P_root, rp, P_root, NoneDict) :
            rp \in {NoneStr, Some(<<>>), Some(P_root), Some(P_f),
                    Some(P_star)}}

CompileConstruct ==
    \E args \in CompileArgs(Len(states) + 1) :
        /\ Len(states) < MaxStates
        /\ chain = <<>>
        /\ compiled = NotCompiled
        /\ Construct(args)

CompileLink == compiled = NotCompiled /\ OrderedLink

CompileMachine ==
    /\ states # <<>>
    /\ compiled = NotCompiled
    /\ MachineCompile(1)

NextCompile == CompileConstruct \/ CompileLink \/ CompileMachine

SpecCompile == Init /\ [][NextCompile]_vars

\* the compiled forms to look at: of every state, and those a compiled
\* machine holds
CompiledForms(i) ==
    {compile(states, i)} \cup
    IF compiled.of # 0 /\ states[i].name \in DOMAIN compiled.States
    THEN {compiled.States[states[i].name]}
    ELSE {}

\* C13 as claimed: "ResultPath" is emitted exactly when the call named
\* result_path, as null for None and as the given string otherwise.
C13_EmittedWhenGiven ==
    \A i \in 1..Len(states) : \A c \in CompiledForms(i) :
        IF states[i].result_path_given
        THEN /\ "ResultPath" \in DOMAIN c
             /\ c["ResultPath"] = IF states[i].result_path.none
                                  THEN JNull
                                  ELSE JStr(states[i].result_path.s)
        ELSE "ResultPath" \notin DOMAIN c

\* C13: "ResultPath" is emitted exactly when the result path differs from
\* the default "$": as null when the state has no result path (None or ""
\* was given) and as the string for "$.field"; for "$" it is left out,
\* whether the call named it or not.
C13_EmittedUnlessDefault ==
    \A i \in 1..Len(states) : \A c \in CompiledForms(i) :
        IF states[i].result_path.none
        THEN "ResultPath" \in DOMAIN c /\ c["ResultPath"] = JNull
        ELSE IF states[i].result_path.s = <<"$">>
        THEN "ResultPath" \notin DOMAIN c
        ELSE /\ "ResultPath" \in DOMAIN c
             /\ c["ResultPath"] = JStr(states[i].result_path.s)

C13_Witness ==
    /\ Len(states) = 3
    /\ compiled.of = 1
    /\ Cardinality(DOMAIN compiled.States) = 3
    /\ states[1].result_path_given /\ states[1].result_path.none
    /\ states[2].result_path_given /\ states[2].result_path = Some(P_root)
    /\ states[3].result_path = Some(P_f)

----------------------------------------------------------------------------
(* Parameters *)

\* the key of a parameter in the mapping built from it
ParameterKey(item) ==
    IF item.static THEN item.key ELSE DropLastTwo(item.key)

\* the value of a parameter for the input v: static, or selected by its path
ParameterValue(item, h, v) ==
    IF item.static THEN item.value ELSE ReferencePathApply(h, item.path, v)

\* C14 as claimed: the value handed to _execute by a state with parameters
\* is a mapping that holds every parameter under its key, a static one with
\* its value and a selected one with what its path selects from the input
\* that the input path left.
C14_ParametersFeedExecution ==
    (self # 0 /\ states[self].parameters # <<>>) =>
        \A k \in 1..Len(calls) :
            calls[k].stage = "execute" =>
                /\ calls[k].a.k = "ref"
                /\ \A j \in 1..Len(states[self].parameters) :
                      LET item == states[self].parameters[j]
                      IN  /\ ParameterKey(item) \in DOMAIN heap[calls[k].a.n]
                          /\ heap[calls[k].a.n][ParameterKey(item)]
                                 = ParameterValue(item, heap, calls[1].out)

----------------------------------------------------------------------------
(* What simulate leaves alone *)

\* the configuration of a state: everything but the traversal cursor
Configuration(st) ==
    [name            |-> st.name,
     comment         |-> st.comment,
     input_path      |-> st.input_path,
     output_path     |-> st.output_path,
     result_path     |-> st.result_path,
     parameters      |-> st.parameters,
     result_selector |-> st.result_selector,
     retriers        |-> st.retriers,
     catchers        |-> st.catchers,
     next_state      |-> st.next_state]

\* the step belongs to a StateMachine.simulate call: it begins one, or one
\* is running
SimulationStep == pc' = "next" \/ pc \notin {"idle", "done", "raised"}

\* C15: no step of a simulation, the first or a later one, changes the
\* name, comment, input path, output path, result path, parameters, result
\* selector, retriers, catchers or next_state of any state.
C15_SimulateKeepsConfiguration ==
    [][SimulationStep =>
          /\ Len(states') = Len(states)
          /\ \A i \in 1..Len(states) :
                Configuration(states'[i]) = Configuration(states[i])]_vars

\* a simulation has ended in which a catcher sent the task back to itself
C15_Witness ==
    /\ pc = "done"
    /\ Len(states) = 3
    /\ states[1].current = 0
    /\ states[1].next_state = 2
    /\ states[1].retriers # <<>>
    /\ states[1].catchers # <<>>
    /\ HasSelector(states[1])
    /\ Len(visited) = 3
    /\ visited[1] = 1
    /\ visited[2] = 1

----------------------------------------------------------------------------
(* Two for loops over the same start state *)

InterleaveConstruct ==
    \E args \in ChainArgs(Len(states) + 1) :
        /\ Len(states) < MaxStates
        /\ chain = <<>>
        /\ NoTravYet
        /\ Construct(args)

InterleaveLink == NoTravYet /\ OrderedLink

\* a for loop over the first state of the chain begins; each caller runs one
InterleaveIter ==
    \E t \in 1..MaxTravs :
        /\ chain # <<>>
        /\ travs[t].start = 0
        /\ TravIter(t, chain[1])

\* one of the loops takes its next step
InterleaveStep == \E t \in 1..MaxTravs : TravNext(t)

NextInterleave ==
    InterleaveConstruct \/ InterleaveLink \/ InterleaveIter \/ InterleaveStep

SpecInterleave == Init /\ [][NextInterleave]_vars

\* q holds the elements of p in their order, but not all of them
Skips(q, p) ==
    /\ Len(q) < Len(p)
    /\ \E f \in [1..Len(q) -> 1..Len(p)] :
          /\ \A k \in 1..Len(q) : p[f[k]] = q[k]
          /\ \A j, k \in 1..Len(q) : j < k => f[j] < f[k]

\* C16: the loops over one start state share the cursor kept on it: the
\* state a loop gets next is the one the cursor is on, whatever that loop
\* has got before, and all loops end once the cursor is None; a loop that
\* ends without having yielded the whole chain in order is one that another
\* loop over the same state has interleaved with.
C16_SharedCursor ==
    \A t \in 1..MaxTravs :
        (travs[t].start # 0 /\ Distinct(chain)) =>
            /\ travs[t].start = chain[1]
            /\ \A k \in 1..Len(travs[t].yielded) : InChain(travs[t].yielded[k])
            /\ (travs[t].live /\ travs[t].clean) =>
                   /\ IsPrefix(travs[t].yielded, chain)
                   /\ next_stops(states, chain[1])
                          <=> travs[t].yielded = chain
            /\ (~travs[t].live /\ travs[t].yielded # chain) =>
                   /\ ~travs[t].clean
                   /\ \E u \in 1..MaxTravs :
                          u # t /\ travs[u].start = travs[t].start

\* two interleaved loops have ended: one skipped the second state, the
\* other got only that state and never reached the last
C16_Witness ==
    /\ chain = <<1, 2, 3>>
    /\ travs[1].start = 1 /\ travs[2].start = 1
    /\ ~travs[1].live /\ ~travs[2].live
    /\ travs[1].yielded = <<1, 3>>
    /\ travs[2].yielded = <<2>>
    /\ Skips(travs[1].yielded, chain)
    /\ Skips(travs[2].yielded, chain)

----------------------------------------------------------------------------
(* The length of a state's name *)

\* the constructor calls whose paths and selector are valid
ValidButForName(args) ==
    /\ ~InputPathOutputPath_init_raises(args)
    /\ ~ResultPath_init_raises(args)
    /\ ~ResultSelector_init_raises(args)

\* C17: every state has a name of at most 128 characters; a constructor
\* call with valid paths succeeds when the name has up to 128 characters
\* and raises when it has 129 or more; a call that raises a value error
\* adds no state.
C17_NameLength ==
    /\ [](/\ \A i \in 1..Len(states) : Len(states[i].name) <= 128
          /\ \A args \in CompileArgs(Len(states) + 1) :
                ValidButForName(args) =>
                    (ConstructorRaises(args) <=> Len(args.name) >= 129))
    /\ [][/\ (err # "ValueError" /\ err' = "ValueError") => states' = states
          /\ Len(states') > Len(states) => err' = "none"]_vars

\* a state with a name of 128 characters exists and a later constructor call
\* has raised
C17_Witness ==
    /\ Len(states) = 1
    /\ Len(states[1].name) = 128
    /\ err = "ValueError"

----------------------------------------------------------------------------
(* The branches of the result path stage *)

\* C18 as claimed: the result path of every constructed state is None, "$"
\* or "$." and letters, so _apply_result_path never reaches its assert
\* False and no simulate call ends with an AssertionError.
C18_FallThroughUnreachable ==
    /\ \A i \in 1..Len(states) :
          \/ states[i].result_path.none
          \/ states[i].result_path.s = <<"$">>
          \/ FullMatchField(states[i].result_path.s)
    /\ \A i \in 1..Len(states) : ResultPathBranch(states[i]) # "assert"
    /\ err # "AssertionError"

----------------------------------------------------------------------------
(* The output of _execute *)

\* None, False, 0, "", [] or a mapping without keys
Falsy(h, v) ==
    \/ v \in {VNone, VBool(FALSE), VInt(0), VStr(0), VList(0)}
    \/ v.k = "ref" /\ DOMAIN h[v.n] = {}

\* C19: when _execute returns a falsy value, the pipeline goes on with a new
\* empty mapping as the execution output; any other value it returns goes
\* on as it is; the mappings that exist are left as they are.
C19_FalsyOutputBecomesEmpty ==
    [][(pc = "execute" /\ pc' \in {"result_selector", "result_path"}) =>
          LET returned == calls'[Len(calls')].b
          IN  /\ calls'[Len(calls')].stage = "execute"
              /\ calls'[Len(calls')].a = state_input
              /\ calls'[Len(calls')].out = state_output'
              /\ IF Falsy(heap', returned)
                 THEN /\ state_output'.k = "ref"
                      /\ state_output'.n = Len(heap')
                      /\ state_output'.n > Len(heap)
                      /\ heap'[state_output'.n] = EmptyDict
                 ELSE state_output' = returned
              /\ \A a \in 1..Len(heap) : heap'[a] = heap[a]]_vars

\* a Pass state returned the input 0 and the result path stage is to get {}
C19_Witness ==
    /\ pc = "result_path"
    /\ Len(calls) = 2
    /\ calls[2].b = VInt(0)
    /\ state_output.k = "ref"
    /\ heap[state_output.n] = EmptyDict
    /\ state_input = VInt(0)

----------------------------------------------------------------------------
(* Starting a loop again *)

\* loop u over the start state was run to its end, or left part-way when
\* loop t began
LeftBehind(u) == ~travs[u].live \/ ~travs[u].clean

\* C20: a for loop over the start state that begins after another one over
\* it has ended or has been left part-way, and that nothing interleaves
\* with, starts at the start state again and yields the whole chain in
\* order.
C20_Restartable ==
    \A t, u \in 1..MaxTravs :
        (t # u /\ Distinct(chain)
            /\ travs[t].start # 0 /\ travs[u].start = travs[t].start
            /\ travs[t].clean /\ LeftBehind(u)) =>
            /\ (travs[t].live /\ travs[t].yielded = <<>>) =>
                   next_value(states, travs[t].start) = travs[t].start
            /\ IsPrefix(travs[t].yielded, chain)
            /\ ~travs[t].live => travs[t].yielded = chain

\* the first loop was left after two of three states; the second has
\* yielded all three and ended
C20_Witness ==
    /\ chain = <<1, 2, 3>>
    /\ travs[1].start = 1 /\ travs[2].start = 1
    /\ travs[1].live /\ ~travs[1].clean
    /\ travs[1].yielded = <<1, 2>>
    /\ ~travs[2].live /\ travs[2].clean
    /\ travs[2].yielded = chain

----------------------------------------------------------------------------
(* The result path "$.field" and the caller's mapping *)

\* the state whose simulate returned has input path "$", a result path
\* "$.field" that the result-path stage matches, and output path "$"
MergesIntoCallersInput(st) ==
    /\ st.input_path = P_root
    /\ ResultPathBranch(st) = "field"
    /\ st.output_path = P_root

\* C21: when a state with input path "$", result path "$.field" and output
\* path "$" has returned from simulate, the mapping the caller passed is
\* itself the value returned, it has key field set to the output that
\* reached the result-path stage (the execution output, after `or {}`, when
\* no result selector is configured), and its other keys are as the caller
\* wrote them.
C21_MergeInPlace ==
    (Returned /\ MergesIntoCallersInput(states[self])) =>
        LET key == MatchGroup1(StrResultPath(states[self]))
            rp == calls[Len(calls) - 1]
            passed == AllocRoot(<<>>, input_lit)
        IN  /\ passed.k = "ref"
            /\ raw_input = passed
            /\ rp.stage = "result_path"
            /\ rp.a = passed
            /\ rp.out = passed
            /\ ret = passed
            /\ DOMAIN heap[passed.n] =
                   DOMAIN input_lit.objs[passed.n] \cup {key}
            /\ heap[passed.n][key] = rp.b
            /\ ~HasSelector(states[self]) =>
                   /\ calls[2].stage = "execute"
                   /\ rp.b = calls[2].out
            /\ \A x \in DOMAIN input_lit.objs[passed.n] \ {key} :
                   heap[passed.n][x] = input_lit.objs[passed.n][x]

\* {"f": 1, "g": 2} was passed to a state with result path "$.f": the call
\* returned that mapping, with f replaced by the output and g kept
C21_Witness ==
    /\ Returned
    /\ MergesIntoCallersInput(states[self])
    /\ input_lit = L_flat
    /\ StrResultPath(states[self]) = P_f
    /\ ret = VRef(1)
    /\ heap[1][F] = calls[Len(calls) - 1].b
    /\ heap[1][F] # VInt(1)
    /\ heap[1][G] = VInt(2)

----------------------------------------------------------------------------
(* Links that close a cycle *)

\* a step that evaluated one >>
LinkStep == chain' # chain

\* the for loop over a state from which a cycle is reachable
LoopsOnCycle(t) ==
    /\ travs[t].start # 0
    /\ ~Acyclic(states, travs[t].start)

\* C22: every >> is accepted, whatever its operands: it sets the successor
\* of its left operand to its right operand, replacing the one it had, and
\* changes nothing else, and the next >> of the expression has the right
\* operand as its left one.  A for loop over a state from which a cycle is
\* reachable never ends: it yields the states along the links for as long
\* as it is followed.  A for loop over a state from which no cycle is
\* reachable ends.
C22_NoCycleCheck ==
    /\ [][LinkStep =>
            LET n == Len(chain')
                left == chain'[n - 1]
                right == chain'[n]
            IN  /\ n >= 2
                /\ chain # <<>> => (chain = SubSeq(chain', 1, n - 1)
                                      /\ left = chain[Len(chain)])
                /\ states' = [states EXCEPT ![left].next_state = right]
                /\ err' = err]_vars
    /\ [](\A a, b \in 1..Len(states) :
            (chain = <<>> /\ NoTravYet /\ compiled = NotCompiled) =>
                ENABLED ChainStart(a, b))
    /\ [](\A t \in 1..MaxTravs : LoopsOnCycle(t) =>
            /\ travs[t].live
            /\ ~next_stops(states, travs[t].start)
            /\ travs[t].yielded =
                   Follow(states, travs[t].start, Len(travs[t].yielded)))
    /\ \A t \in 1..MaxTravs :
          (travs[t].live /\ Acyclic(states, travs[t].start))
              ~> ~travs[t].live

\* a >> b >> a was evaluated, and the for loop over a has yielded a, b and a
\* again without ending
C22_Witness ==
    /\ Len(chain) = 3
    /\ chain[1] # chain[2]
    /\ chain[3] = chain[1]
    /\ states[chain[1]].next_state = chain[2]
    /\ states[chain[2]].next_state = chain[1]
    /\ travs[1].start = chain[1]
    /\ travs[1].live
    /\ travs[1].yielded = chain

====
